---- MODULE Spec2Model ----
(***************************************************************************)
(* Model of sdk/agent.py: one Agent, its knowledge base, and the calls it  *)
(* makes to the GameBackend and the Generator during speak, vote,          *)
(* use_skill, act, the two state-refresh reads and update_status.          *)
(*                                                                         *)
(* Conventions                                                             *)
(*   - an optional value (Python None, or an absent dict key) is the empty *)
(*     sequence <<>>; a present value v is <<v>>;                          *)
(*   - a text is the sequence of its whitespace-delimited tokens, which is *)
(*     what str.split() yields; a token is a string;                       *)
(*   - a message built by an f-string is the sequence of its parts;        *)
(*   - every handler is a function from (agent, arguments, outcomes of the *)
(*     external calls) to a record with the agent afterwards, the value    *)
(*     returned, the exception that escaped (if any) and the ordered trace *)
(*     of external calls, fallback/parse steps and attribute writes.       *)
(***************************************************************************)
EXTENDS Integers, Sequences, FiniteSets, TLC

VARIABLES agent, last, tally

vars == <<agent, last, tally>>

(***************************************************************************)
(* Bounds of the model.                                                    *)
(***************************************************************************)
MaxPlayer == 2      \* agents are built with player_id in 1..MaxPlayer
MaxTarget == 1      \* explicit target ids range over 0..MaxTarget
MaxDraws == 2       \* random.choice draws one of the first MaxDraws - 1
                    \* elements of its list, or the last one

(***************************************************************************)
(* Program constants.                                                      *)
(***************************************************************************)
DefaultRosterEnd == 10      \* range(1, 10)
SpeechWindow == 10          \* history[-10:]
VoteWindow == 5             \* history_speeches[-5:]
DeadVote == -1              \* vote() of a dead agent
NoCandidate == -1           \* _parse_vote_decision without candidates
NoNumber == 0               \* _parse_number_from_response without a number

None == <<>>
Some(v) == <<v>>
IsSome(o) == o # <<>>
Get(o, default) == IF o = <<>> THEN default ELSE o[1]

Role == {"villager", "werewolf", "witch", "seer", "hunter"}

(***************************************************************************)
(* Tokens.  str.isdigit() accepts every character of Unicode category      *)
(* Nd and also digits such as the superscript two, for which int() raises  *)
(* ValueError.                                                             *)
(***************************************************************************)
DecimalValue ==
  [t \in {"0", "1", "2", "3", "4", "5", "6", "7", "8", "9", "07"} |->
     CASE t = "0" -> 0 [] t = "1" -> 1 [] t = "2" -> 2 [] t = "3" -> 3
       [] t = "4" -> 4 [] t = "5" -> 5 [] t = "6" -> 6 [] t = "7" -> 7
       [] t = "8" -> 8 [] t = "9" -> 9 [] t = "07" -> 7]

SuperscriptTokens == {"^2"}     \* stands for the one-character token U+00B2

isdigit(t) == t \in DOMAIN DecimalValue \/ t \in SuperscriptTokens

IntRaises(t) == t \notin DOMAIN DecimalValue

int(t) == DecimalValue[t]

str(n) == ToString(n)

SaveTokens == {"save", "Save", "saved", "save-or-poison"}
PoisonTokens == {"poison", "POISON", "save-or-poison"}

LastN(s, n) == IF Len(s) <= n THEN s ELSE SubSeq(s, Len(s) - n + 1, Len(s))

(***************************************************************************)
(* [int(s) for s in response.split() if s.isdigit()]: the list, and        *)
(* whether building it raises ValueError.                                  *)
(***************************************************************************)
NumbersRaises(response) ==
  \E i \in 1..Len(response) : isdigit(response[i]) /\ IntRaises(response[i])

Numbers(response) ==
  LET digits == SelectSeq(response, isdigit)
  IN [i \in 1..Len(digits) |-> int(digits[i])]

_parse_number_from_response(response) ==
  IF NumbersRaises(response) THEN NoNumber
  ELSE IF Numbers(response) # <<>> THEN Numbers(response)[1] ELSE NoNumber

(***************************************************************************)
(* _parse_witch_decision: value is <<action, target>>; the ValueError of   *)
(* the list comprehension is not caught here.                              *)
(***************************************************************************)
ContainsSave(response) == \E i \in 1..Len(response) : response[i] \in SaveTokens
ContainsPoison(response) == \E i \in 1..Len(response) : response[i] \in PoisonTokens

WitchParseRaises(response) ==
  (ContainsSave(response) \/ ContainsPoison(response)) /\ NumbersRaises(response)

_parse_witch_decision(response) ==
  LET n == IF Numbers(response) # <<>> THEN Numbers(response)[1] ELSE 0
  IN IF ContainsSave(response) THEN <<"save", n>>
     ELSE IF ContainsPoison(response) THEN <<"poison", n>>
     ELSE <<"abstain", 0>>

(***************************************************************************)
(* The agent and its knowledge base (Agent.__init__).  alive_players is    *)
(* not a key of the knowledge base until the first successful state fetch. *)
(***************************************************************************)
InitKnowledgeBase ==
  [game_phase |-> None, current_round |-> 0, history_speeches |-> <<>>,
   vote_history |-> <<>>, death_info |-> <<>>, alive_players |-> None]

NewAgent(player_id, role, api_client) ==
  [player_id |-> player_id, role |-> role, api_client |-> api_client,
   is_alive |-> TRUE, vote_target |-> None, skill_used |-> FALSE,
   knowledge_base |-> InitKnowledgeBase]

(***************************************************************************)
(* Trace events: an external call with its argument and outcome ("ok" or   *)
(* the message of the exception it raised), or an internal step.           *)
(***************************************************************************)
Ev(name, arg, out) == [name |-> name, arg |-> arg, out |-> out]

Outcome(o) == IF o.ok THEN "ok" ELSE o.err

BackendCalls ==
  {"get_game_state", "get_speech_history", "submit_speech", "submit_vote",
   "update_agent_action", "werewolf_kill", "witch_save", "witch_poison",
   "seer_check", "hunter_shoot"}

SkillMutations ==
  {"werewolf_kill", "witch_save", "witch_poison", "seer_check", "hunter_shoot"}

Names(trace) == {trace[i].name : i \in 1..Len(trace)}

Count(trace, names) == Cardinality({i \in 1..Len(trace) : trace[i].name \in names})

(***************************************************************************)
(* A handler's outcome is [agent, ret, raised, trace].  Then puts the      *)
(* trace of what ran before in front of it.                                *)
(***************************************************************************)
Then(trace, r) == [r EXCEPT !.trace = trace \o @]

(***************************************************************************)
(* get_history_speeches and get_current_state.  h and st are the outcomes  *)
(* of the backend calls: [ok, value, err].                                 *)
(***************************************************************************)
get_history_speeches(self, h) ==
  IF h.ok
  THEN [agent |-> [self EXCEPT !.knowledge_base.history_speeches = h.value],
        ret |-> h.value, raised |-> None,
        trace |-> <<Ev("get_speech_history", <<self.player_id>>, "ok")>>]
  ELSE [agent |-> self, ret |-> <<>>, raised |-> None,
        trace |-> <<Ev("get_speech_history", <<self.player_id>>, h.err)>>]

EmptyState ==
  [phase |-> None, round |-> None, alive_players |-> None, death_info |-> None]

\* mutant: a failed fetch clears the cached roster
get_current_stateClearsOnFailure(self, st) ==
  IF st.ok
  THEN [agent |-> [self EXCEPT
                     !.knowledge_base.game_phase = st.value.phase,
                     !.knowledge_base.current_round = Get(st.value.round, 0),
                     !.knowledge_base.alive_players =
                         Some(Get(st.value.alive_players, <<>>)),
                     !.knowledge_base.death_info = Get(st.value.death_info, <<>>)],
        ret |-> st.value, raised |-> None,
        trace |-> <<Ev("get_game_state", <<self.player_id>>, "ok")>>]
  ELSE [agent |-> [self EXCEPT !.knowledge_base.alive_players = Some(<<>>)],
        ret |-> EmptyState, raised |-> None,
        trace |-> <<Ev("get_game_state", <<self.player_id>>, st.err)>>]

get_current_state(self, st) ==
  IF st.ok
  THEN [agent |-> [self EXCEPT
                     !.knowledge_base.game_phase = st.value.phase,
                     !.knowledge_base.current_round = Get(st.value.round, 0),
                     !.knowledge_base.alive_players =
                         Some(Get(st.value.alive_players, <<>>)),
                     !.knowledge_base.death_info = Get(st.value.death_info, <<>>)],
        ret |-> st.value, raised |-> None,
        trace |-> <<Ev("get_game_state", <<self.player_id>>, "ok")>>]
  ELSE [agent |-> self, ret |-> EmptyState, raised |-> None,
        trace |-> <<Ev("get_game_state", <<self.player_id>>, st.err)>>]

(***************************************************************************)
(* Prompts.  Only the keywords that _simulate_ai_response looks for in the *)
(* lower-cased prompt matter: those of the fixed template and those of the *)
(* interpolated free-form phase label.                                     *)
(***************************************************************************)
PhaseKeywords(game_phase) ==
  IF game_phase = None THEN {}
  ELSE CASE game_phase[1] = "day_speech" -> {"speech"}
         [] game_phase[1] = "vote" -> {"vote"}
         [] OTHER -> {}

_construct_speech_prompt(self, context) ==
  [name |-> "speech",
   keywords |-> {"speech"} \cup PhaseKeywords(context.game_phase)]

_construct_vote_prompt(self, context) ==
  [name |-> "vote",
   keywords |-> {"vote"} \cup PhaseKeywords(context.game_phase)]

SkillPrompt(role) == [name |-> role, keywords |-> {}]

_get_skill_context(self) ==
  [player_id |-> self.player_id, role |-> self.role, game_phase |-> None,
   alive_players |-> Some(Get(self.knowledge_base.alive_players, <<>>)),
   history |-> LastN(self.knowledge_base.history_speeches, VoteWindow)]

(***************************************************************************)
(* _simulate_ai_response.  pick is the index random.choice draws.          *)
(***************************************************************************)
DefaultRoster == [i \in 1..(DefaultRosterEnd - 1) |-> i]

OtherPlayers(alive_players, player_id) ==
  LET NotSelf(p) == p # player_id IN SelectSeq(alive_players, NotSelf)

SimulatedSpeech(self) ==
  <<"I", "am", "player", str(self.player_id) \o ",", "as", "a", self.role \o ",",
    "I", "think", "we", "need", "to", "carefully", "analyze", "the",
    "current", "situation.">>

SimulatedVote(other_players, pick) ==
  <<str(IF other_players # <<>> THEN other_players[pick] ELSE 1)>>

SimulatedSkill ==
  <<"Based", "on", "the", "current", "situation,", "I", "choose", "to", "act.">>

_simulate_ai_response(self, prompt, context, pick) ==
  IF "speech" \in prompt.keywords \/ "speak" \in prompt.keywords
  THEN SimulatedSpeech(self)
  ELSE IF "vote" \in prompt.keywords
  THEN SimulatedVote(OtherPlayers(Get(context.alive_players, DefaultRoster),
                                  self.player_id), pick)
  ELSE SimulatedSkill

(***************************************************************************)
(* interact_with_ai.  gen is the outcome of api_client.generate; the value *)
(* is [text, trace].                                                       *)
(***************************************************************************)
Simulated(self, prompt, context, pick) ==
  [text |-> _simulate_ai_response(self, prompt, context, pick),
   trace |-> <<Ev("simulate", <<prompt.name>>, "ok")>>]

\* mutant: the except branch returns the empty string
interact_with_aiNoFallback(self, prompt, context, gen, pick) ==
  IF ~self.api_client
  THEN Simulated(self, prompt, context, pick)
  ELSE IF gen.ok
  THEN [text |-> gen.value, trace |-> <<Ev("generate", <<prompt.name>>, "ok")>>]
  ELSE [text |-> <<>>, trace |-> <<Ev("generate", <<prompt.name>>, gen.err)>>]

interact_with_ai(self, prompt, context, gen, pick) ==
  IF ~self.api_client
  THEN Simulated(self, prompt, context, pick)
  ELSE IF gen.ok
  THEN [text |-> gen.value, trace |-> <<Ev("generate", <<prompt.name>>, "ok")>>]
  ELSE Then(<<Ev("generate", <<prompt.name>>, gen.err)>>,
            Simulated(self, prompt, context, pick))

(***************************************************************************)
(* _parse_vote_decision.  pick is the index random.choice draws.           *)
(***************************************************************************)
RandomOther(other_players, pick) ==
  IF other_players # <<>> THEN other_players[pick] ELSE NoCandidate

_parse_vote_decision(self, ai_response, pick) ==
  IF ~NumbersRaises(ai_response) /\ Numbers(ai_response) # <<>>
  THEN Numbers(ai_response)[1]
  ELSE RandomOther(OtherPlayers(Get(self.knowledge_base.alive_players, DefaultRoster),
                                self.player_id), pick)

(***************************************************************************)
(* speak.  env gives the outcomes of get_game_state (st), of               *)
(* get_speech_history (h), of generate (gen) and of submit_speech (submit).*)
(* The empty string is the empty text.                                     *)
(***************************************************************************)
\* self.get_current_state(...); history = self.get_history_speeches(...)
RefreshHistory(s1, h) == Then(s1.trace, get_history_speeches(s1.agent, h))

Refresh(self, env) == RefreshHistory(get_current_state(self, env.st), env.h)

SpeechContext(self, speech_type, history) ==
  [player_id |-> self.player_id, role |-> self.role,
   game_phase |-> self.knowledge_base.game_phase,
   speech_type |-> speech_type,
   history |-> LastN(history, SpeechWindow),
   alive_players |-> Some(Get(self.knowledge_base.alive_players, <<>>))]

AskSpeech(self, context, gen) ==
  interact_with_ai(self, _construct_speech_prompt(self, context), context, gen, 1)

\* submit_speech inside try/except: both branches return speech_content
SubmitSpeech(s, ai, submit) ==
  [agent |-> s.agent, ret |-> ai.text, raised |-> None,
   trace |-> s.trace \o ai.trace \o
             <<Ev("submit_speech", <<s.agent.player_id, ai.text>>, Outcome(submit))>>]

SpeakRefreshed(s, speech_type, env) ==
  SubmitSpeech(s, AskSpeech(s.agent, SpeechContext(s.agent, speech_type, s.ret),
                            env.gen),
               env.submit)

speak(self, speech_type, env) ==
  IF ~self.is_alive
  THEN [agent |-> self, ret |-> <<>>, raised |-> None, trace |-> <<>>]
  ELSE SpeakRefreshed(Refresh(self, env), speech_type, env)

(***************************************************************************)
(* vote.  target_id is optional; env gives the outcomes of generate and of *)
(* submit_vote and the two indexes random.choice may draw.                 *)
(***************************************************************************)
\* mutant: if target_id (truthiness: 0 counts as no target)
ExplicitTruthy(target_id) == target_id # None /\ target_id[1] # 0

\* if target_id is not None
Explicit(target_id) == target_id # None

\* mutant: the except branch returns -1
CastVoteLosesTarget(self, vote_target, submit) ==
  [agent |-> [self EXCEPT !.vote_target = Some(vote_target)],
   ret |-> IF submit.ok THEN vote_target ELSE -1,
   raised |-> None,
   trace |-> <<Ev("self.vote_target", <<vote_target>>, "ok"),
               Ev("submit_vote", <<self.player_id, vote_target>>, Outcome(submit))>>]

\* self.vote_target = vote_target, then submit_vote inside try/except
CastVote(self, vote_target, submit) ==
  [agent |-> [self EXCEPT !.vote_target = Some(vote_target)],
   ret |-> vote_target,
   raised |-> None,
   trace |-> <<Ev("self.vote_target", <<vote_target>>, "ok"),
               Ev("submit_vote", <<self.player_id, vote_target>>, Outcome(submit))>>]

VoteContext(self) ==
  [player_id |-> self.player_id, role |-> self.role,
   game_phase |-> self.knowledge_base.game_phase,
   alive_players |-> Some(Get(self.knowledge_base.alive_players, <<>>)),
   history |-> LastN(self.knowledge_base.history_speeches, VoteWindow)]

AskVote(self, context, env) ==
  interact_with_ai(self, _construct_vote_prompt(self, context), context,
                   env.gen, env.pick1)

VoteDecided(self, ai, env) ==
  Then(ai.trace \o <<Ev("_parse_vote_decision", ai.text, "ok")>>,
       CastVote(self, _parse_vote_decision(self, ai.text, env.pick2), env.submit))

vote(self, target_id, env) ==
  IF ~self.is_alive
  THEN [agent |-> self, ret |-> DeadVote, raised |-> None, trace |-> <<>>]
  ELSE IF Explicit(target_id)
  THEN CastVote(self, target_id[1], env.submit)
  ELSE VoteDecided(self, AskVote(self, VoteContext(self), env), env)

(***************************************************************************)
(* Skill handlers.  skill_params is [action, target_id], both optional.    *)
(* env gives the outcomes of generate (gen) and of the role's backend      *)
(* mutation (mut).  A handler yields [result, raised, trace].  The target  *)
(* handed to the backend is optional because the witch handler can pass    *)
(* None.                                                                   *)
(***************************************************************************)
EmptyParams == [action |-> None, target_id |-> None]

SkillResult(success, message, target_id, check_result) ==
  [success |-> success, message |-> message, target_id |-> target_id,
   check_result |-> check_result]

PyStr(o) == IF o = None THEN "None" ELSE str(o[1])

Handled(result, trace) == [result |-> result, raised |-> None, trace |-> trace]

Escaped(err, trace) ==
  [result |-> SkillResult(FALSE, <<>>, None, None), raised |-> Some(err),
   trace |-> trace]

Mutation(name, self, target_id, mut) ==
  Ev(name, <<self.player_id, target_id>>, Outcome(mut))

AskSkill(self, gen) ==
  interact_with_ai(self, SkillPrompt(self.role), _get_skill_context(self), gen, 1)

ParsedTarget(ai) ==
  [target_id |-> _parse_number_from_response(ai.text),
   trace |-> ai.trace \o <<Ev("_parse_number_from_response", ai.text, "ok")>>]

\* target_id = skill_params.get("target_id"), else prompt + parse
ResolveTarget(self, skill_params, gen) ==
  IF skill_params.target_id # None
  THEN [target_id |-> skill_params.target_id[1], trace |-> <<>>]
  ELSE ParsedTarget(AskSkill(self, gen))

WerewolfKill(self, r, mut) ==
  IF mut.ok
  THEN Handled(SkillResult(TRUE,
                           <<"Werewolf chose to kill player ", str(r.target_id)>>,
                           Some(r.target_id), None),
               r.trace \o <<Mutation("werewolf_kill", self, Some(r.target_id), mut)>>)
  ELSE Handled(SkillResult(FALSE, <<"Werewolf kill failed: ", mut.err>>, None, None),
               r.trace \o <<Mutation("werewolf_kill", self, Some(r.target_id), mut)>>)

_use_werewolf_skill(self, skill_params, env) ==
  WerewolfKill(self, ResolveTarget(self, skill_params, env.gen), env.mut)

\* action, target_id = self._parse_witch_decision(ai_response)
WitchParsed(ai, parsed) ==
  [action |-> parsed[1], target_id |-> Some(parsed[2]), raises |-> FALSE,
   trace |-> ai.trace \o <<Ev("_parse_witch_decision", ai.text, "ok")>>]

\* the decision skill_params supplies, else the one parsed from the reply;
\* int() raising inside _parse_witch_decision leaves no decision
WitchDecision(skill_params, ai) ==
  IF skill_params.action # None
  THEN [action |-> skill_params.action[1], target_id |-> skill_params.target_id,
        raises |-> FALSE, trace |-> <<>>]
  ELSE IF WitchParseRaises(ai.text)
  THEN [action |-> "", target_id |-> None, raises |-> TRUE,
        trace |-> ai.trace \o <<Ev("_parse_witch_decision", ai.text, "ValueError")>>]
  ELSE WitchParsed(ai, _parse_witch_decision(ai.text))

WitchPotion(self, name, done, r, mut) ==
  IF mut.ok
  THEN Handled(SkillResult(TRUE, <<done, PyStr(r.target_id)>>, None, None),
               r.trace \o <<Mutation(name, self, r.target_id, mut)>>)
  ELSE Handled(SkillResult(FALSE, <<"Witch skill failed: ", mut.err>>, None, None),
               r.trace \o <<Mutation(name, self, r.target_id, mut)>>)

\* mutant: an action that is none of save, poison, abstain is a failure
WitchActRejectsUnknown(self, r, mut) ==
  IF r.raises
  THEN Escaped("ValueError", r.trace)
  ELSE IF r.action = "save"
  THEN WitchPotion(self, "witch_save", "Witch used antidote to save player ", r, mut)
  ELSE IF r.action = "poison"
  THEN WitchPotion(self, "witch_poison", "Witch used poison on player ", r, mut)
  ELSE IF r.action = "abstain"
  THEN Handled(SkillResult(TRUE, <<"Witch chose not to use skill">>, None, None),
               r.trace)
  ELSE Handled(SkillResult(FALSE, <<"Unknown action">>, None, None), r.trace)

WitchAct(self, r, mut) ==
  IF r.raises
  THEN Escaped("ValueError", r.trace)
  ELSE IF r.action = "save"
  THEN WitchPotion(self, "witch_save", "Witch used antidote to save player ", r, mut)
  ELSE IF r.action = "poison"
  THEN WitchPotion(self, "witch_poison", "Witch used poison on player ", r, mut)
  ELSE Handled(SkillResult(TRUE, <<"Witch chose not to use skill">>, None, None),
               r.trace)

_use_witch_skill(self, skill_params, env) ==
  WitchAct(self, WitchDecision(skill_params, AskSkill(self, env.gen)), env.mut)

\* mutant: the label seer_check returned is not put in the result
SeerCheckDropsLabel(self, r, mut) ==
  IF mut.ok
  THEN Handled(SkillResult(TRUE,
                           <<"Seer checked player ", str(r.target_id),
                             ", result is ", mut.value>>,
                           None, None),
               r.trace \o <<Mutation("seer_check", self, Some(r.target_id), mut)>>)
  ELSE Handled(SkillResult(FALSE, <<"Seer check failed: ", mut.err>>, None, None),
               r.trace \o <<Mutation("seer_check", self, Some(r.target_id), mut)>>)

SeerCheck(self, r, mut) ==
  IF mut.ok
  THEN Handled(SkillResult(TRUE,
                           <<"Seer checked player ", str(r.target_id),
                             ", result is ", mut.value>>,
                           None, Some(mut.value)),
               r.trace \o <<Mutation("seer_check", self, Some(r.target_id), mut)>>)
  ELSE Handled(SkillResult(FALSE, <<"Seer check failed: ", mut.err>>, None, None),
               r.trace \o <<Mutation("seer_check", self, Some(r.target_id), mut)>>)

_use_seer_skill(self, skill_params, env) ==
  SeerCheck(self, ResolveTarget(self, skill_params, env.gen), env.mut)

\* mutant: target 0 is submitted like any other target
HunterShootAlways(self, r, mut) ==
  IF mut.ok
  THEN Handled(SkillResult(TRUE, <<"Hunter shot player ", str(r.target_id)>>,
                           Some(r.target_id), None),
               r.trace \o <<Mutation("hunter_shoot", self, Some(r.target_id), mut)>>)
  ELSE Handled(SkillResult(FALSE, <<"Hunter shoot failed: ", mut.err>>, None, None),
               r.trace \o <<Mutation("hunter_shoot", self, Some(r.target_id), mut)>>)

HunterShoot(self, r, mut) ==
  IF r.target_id = 0
  THEN Handled(SkillResult(TRUE, <<"Hunter chose not to shoot">>, None, None),
               r.trace)
  ELSE IF mut.ok
  THEN Handled(SkillResult(TRUE, <<"Hunter shot player ", str(r.target_id)>>,
                           Some(r.target_id), None),
               r.trace \o <<Mutation("hunter_shoot", self, Some(r.target_id), mut)>>)
  ELSE Handled(SkillResult(FALSE, <<"Hunter shoot failed: ", mut.err>>, None, None),
               r.trace \o <<Mutation("hunter_shoot", self, Some(r.target_id), mut)>>)

_use_hunter_skill(self, skill_params, env) ==
  HunterShoot(self, ResolveTarget(self, skill_params, env.gen), env.mut)

(***************************************************************************)
(* use_skill.  skill_params is optional (None becomes the empty dict).     *)
(***************************************************************************)
\* mutants: one of the two tests is missing
CannotUseSkillIgnoresDeath(self) == self.skill_used

CannotUseSkillIgnoresLatch(self) == ~self.is_alive

\* if not self.is_alive or self.skill_used
CannotUseSkill(self) == ~self.is_alive \/ self.skill_used

\* mutant: a role without a handler gets a successful result
SkillHandlerDefaultSucceeds(self, skill_params, env) ==
  CASE self.role = "werewolf" -> _use_werewolf_skill(self, skill_params, env)
    [] self.role = "witch" -> _use_witch_skill(self, skill_params, env)
    [] self.role = "seer" -> _use_seer_skill(self, skill_params, env)
    [] self.role = "hunter" -> _use_hunter_skill(self, skill_params, env)
    [] OTHER -> Handled(SkillResult(TRUE, <<>>, None, None), <<>>)

\* the dispatch by role; a villager keeps the default result
SkillHandler(self, skill_params, env) ==
  CASE self.role = "werewolf" -> _use_werewolf_skill(self, skill_params, env)
    [] self.role = "witch" -> _use_witch_skill(self, skill_params, env)
    [] self.role = "seer" -> _use_seer_skill(self, skill_params, env)
    [] self.role = "hunter" -> _use_hunter_skill(self, skill_params, env)
    [] OTHER -> Handled(SkillResult(FALSE, <<>>, None, None), <<>>)

\* mutants: the latch is never set; the latch is set whatever the result
LatchNever(self, h) ==
  [agent |-> self, ret |-> h.result, raised |-> None, trace |-> h.trace]

LatchAlways(self, h) ==
  [agent |-> [self EXCEPT !.skill_used = TRUE], ret |-> h.result,
   raised |-> None,
   trace |-> h.trace \o <<Ev("self.skill_used", <<TRUE>>, "ok")>>]

\* if skill_result.get("success", False): self.skill_used = True
Latch(self, h) ==
  IF h.result.success
  THEN [agent |-> [self EXCEPT !.skill_used = TRUE], ret |-> h.result,
        raised |-> None,
        trace |-> h.trace \o <<Ev("self.skill_used", <<TRUE>>, "ok")>>]
  ELSE [agent |-> self, ret |-> h.result, raised |-> None, trace |-> h.trace]

\* an exception of the handler leaves use_skill before the latch
AfterHandler(self, h) ==
  IF h.raised # None
  THEN [agent |-> self, ret |-> h.result, raised |-> h.raised, trace |-> h.trace]
  ELSE Latch(self, h)

use_skill(self, skill_params, env) ==
  IF CannotUseSkill(self)
  THEN [agent |-> self,
        ret |-> SkillResult(FALSE, <<"Cannot use skill">>, None, None),
        raised |-> None, trace |-> <<>>]
  ELSE AfterHandler(self, SkillHandler(self, Get(skill_params, EmptyParams), env))

(***************************************************************************)
(* act.  kwargs is [speech_type, target_id, skill_params], all optional;   *)
(* env also gives the outcome of update_agent_action (update).             *)
(***************************************************************************)
ActionResult(action_type, success, message, content, vote_target) ==
  [action_type |-> action_type, success |-> success, message |-> message,
   content |-> content, vote_target |-> vote_target]

ActionFailed(result, e) == [result EXCEPT !.message = Some(<<"Action failed: ", e>>)]

\* content = self.speak(...); result["success"] = True; result["content"] = content
SpeakBranch(result, r) ==
  [agent |-> r.agent, raised |-> r.raised, trace |-> r.trace,
   result |-> IF r.raised # None THEN result
              ELSE [result EXCEPT !.success = TRUE, !.content = Some(r.ret)]]

\* vote_target = self.vote(...); result["success"] = True; result["vote_target"] = vote_target
VoteBranch(result, r) ==
  [agent |-> r.agent, raised |-> r.raised, trace |-> r.trace,
   result |-> IF r.raised # None THEN result
              ELSE [result EXCEPT !.success = TRUE, !.vote_target = Some(r.ret)]]

\* mutant: use_skill is reported as a success like speak and vote
SkillBranchAlwaysSucceeds(result, r) ==
  [agent |-> r.agent, raised |-> r.raised, trace |-> r.trace,
   result |-> IF r.raised # None THEN result
              ELSE [result EXCEPT !.success = TRUE,
                                  !.message = Some(r.ret.message)]]

\* skill_result = self.use_skill(...); success and message are copied from it
SkillBranch(result, r) ==
  [agent |-> r.agent, raised |-> r.raised, trace |-> r.trace,
   result |-> IF r.raised # None THEN result
              ELSE [result EXCEPT !.success = r.ret.success,
                                  !.message = Some(r.ret.message)]]

\* the body of the try block up to the update call
Dispatch(self, action_type, kwargs, env) ==
  CASE action_type = "speak" ->
         SpeakBranch(ActionResult(action_type, FALSE, None, None, None),
                     speak(self, Get(kwargs.speech_type, "normal"), env))
    [] action_type = "vote" ->
         VoteBranch(ActionResult(action_type, FALSE, None, None, None),
                    vote(self, kwargs.target_id, env))
    [] action_type = "use_skill" ->
         SkillBranch(ActionResult(action_type, FALSE, None, None, None),
                     use_skill(self, Some(Get(kwargs.skill_params, EmptyParams)), env))
    [] OTHER ->
         [agent |-> self, raised |-> None, trace |-> <<>>,
          result |-> ActionResult(action_type, FALSE, None, None, None)]

\* backend_interface.update_agent_action(self.player_id, result)
Report(self, d, update) ==
  IF d.raised # None THEN d
  ELSE [d EXCEPT !.raised = IF update.ok THEN None ELSE Some(update.err),
                 !.trace = d.trace \o
                           <<Ev("update_agent_action", <<self.player_id, d.result>>,
                                Outcome(update))>>]

\* mutant: except ValueError
ActExceptValueError(u) ==
  IF u.raised = Some("ValueError")
  THEN [agent |-> u.agent, ret |-> ActionFailed(u.result, u.raised[1]),
        raised |-> None, caught |-> u.raised, trace |-> u.trace]
  ELSE [agent |-> u.agent, ret |-> u.result, raised |-> u.raised, caught |-> None,
        trace |-> u.trace]

\* except Exception as e: result["message"] = f"Action failed: {e}"; return result
ActExcept(u) ==
  IF u.raised # None
  THEN [agent |-> u.agent, ret |-> ActionFailed(u.result, u.raised[1]),
        raised |-> None, caught |-> u.raised, trace |-> u.trace]
  ELSE [agent |-> u.agent, ret |-> u.result, raised |-> None, caught |-> None,
        trace |-> u.trace]

act(self, action_type, kwargs, env) ==
  ActExcept(Report(self, Dispatch(self, action_type, kwargs, env), env.update))

(***************************************************************************)
(* update_status.  new_status is [is_alive, skill_used], both optional.    *)
(***************************************************************************)
\* mutant: a status with is_alive also clears the latch
update_statusClearsLatch(self, new_status) ==
  [self EXCEPT
     !.is_alive = Get(new_status.is_alive, @),
     !.skill_used = Get(new_status.skill_used,
                        IF new_status.is_alive # None THEN FALSE ELSE @)]

update_status(self, new_status) ==
  [self EXCEPT !.is_alive = Get(new_status.is_alive, @),
               !.skill_used = Get(new_status.skill_used, @)]


(***************************************************************************)
(* The environment: what the backend and the Generator may answer.         *)
(***************************************************************************)
Errors == {"timeout"}

Ok(v) == [ok |-> TRUE, value |-> v, err |-> ""]
Fail(e) == [ok |-> FALSE, value |-> <<>>, err |-> e]
Failures == {Fail(e) : e \in Errors}

Roster(n) == [i \in 1..n |-> i]

Death == [player_id |-> 1, round |-> 1, cause |-> "killed"]

StateResponses ==
  { [phase |-> Some("night"), round |-> Some(1),
     alive_players |-> Some(Roster(MaxPlayer + 1)), death_info |-> Some(<<Death>>)],
    EmptyState,
    [phase |-> Some("day_speech"), round |-> None,
     alive_players |-> Some(<<1>>), death_info |-> None] }

Speech == [player_id |-> 1, content |-> <<"hello">>, round |-> 1, phase |-> "day_speech"]

HistoryResponses == {<<Speech>>}

SpeechReplies == { <<"no", "numbers">> }
VoteReplies == SpeechReplies \cup { <<"2">>, <<"0">>, <<"save-or-poison", "^2">> }
Replies == VoteReplies \cup { <<"Save", "1">>, <<"poison", "2", "please">> }

CheckResults == {"good", "werewolf"}

StateOutcomes == {Ok(r) : r \in StateResponses} \cup {Fail("timeout")}
HistoryOutcomes == {Ok(r) : r \in HistoryResponses} \cup {Fail("timeout")}
SubmitOutcomes == {Ok(<<>>), Fail("timeout")}
UpdateOutcomes == {Ok(<<>>)} \cup Failures

\* generate is only reached when a client is configured
GenOutcomes(self, replies) ==
  IF self.api_client THEN {Ok(r) : r \in replies} \cup {Fail("timeout")}
  ELSE {Fail("no client")}

\* only seer_check returns a value
MutOutcomes(self) ==
  IF self.role = "seer" THEN {Ok(c) : c \in CheckResults} \cup Failures
  ELSE {Ok(<<>>)} \cup Failures

\* the indexes random.choice draws from a list
Picks(list) ==
  IF list = <<>> THEN {1}
  ELSE {i \in 1..Len(list) : i < MaxDraws \/ i = Len(list)}

SimulatePicks(self) ==
  Picks(OtherPlayers(Get(self.knowledge_base.alive_players, <<>>), self.player_id))

ParsePicks(self) ==
  Picks(OtherPlayers(Get(self.knowledge_base.alive_players, DefaultRoster),
                     self.player_id))

Quiet ==
  [st |-> Fail("unused"), h |-> Fail("unused"), gen |-> Fail("unused"),
   submit |-> Fail("unused"), mut |-> Fail("unused"), update |-> Fail("unused"),
   pick1 |-> 1, pick2 |-> 1]

\* a call that returns at its first test consults nothing: one env is enough
SpeakEnvs(self) ==
  IF ~self.is_alive THEN {Quiet}
  ELSE {[Quiet EXCEPT !.st = st, !.h = h, !.gen = gen, !.submit = submit] :
          st \in StateOutcomes, h \in HistoryOutcomes,
          gen \in GenOutcomes(self, SpeechReplies), submit \in SubmitOutcomes}

VoteEnvs(self, target_id) ==
  IF ~self.is_alive THEN {Quiet}
  ELSE IF target_id # None
  THEN {[Quiet EXCEPT !.submit = submit] : submit \in SubmitOutcomes}
  ELSE {[Quiet EXCEPT !.gen = gen, !.submit = submit, !.pick1 = p1, !.pick2 = p2] :
          gen \in GenOutcomes(self, VoteReplies), submit \in SubmitOutcomes,
          p1 \in SimulatePicks(self), p2 \in ParsePicks(self)}

\* the Generator is only consulted for what skill_params does not supply
Consults(self, skill_params) ==
  IF self.role = "witch" THEN Get(skill_params, EmptyParams).action = None
  ELSE Get(skill_params, EmptyParams).target_id = None

SkillEnvs(self, skill_params) ==
  IF ~self.is_alive \/ self.skill_used \/ self.role = "villager" THEN {Quiet}
  ELSE IF Consults(self, skill_params)
  THEN {[Quiet EXCEPT !.gen = gen, !.mut = mut] :
          gen \in GenOutcomes(self, Replies), mut \in MutOutcomes(self)}
  ELSE {[Quiet EXCEPT !.mut = mut] : mut \in MutOutcomes(self)}

WithUpdate(envs) == {[e EXCEPT !.update = u] : e \in envs, u \in UpdateOutcomes}

(***************************************************************************)
(* Arguments.                                                              *)
(***************************************************************************)
Targets == 0..MaxTarget
OptTargets == {None} \cup {Some(t) : t \in Targets}
OptActions == {None} \cup {Some(a) : a \in {"save", "poison", "abstain", "dance"}}
SkillParams == {[action |-> a, target_id |-> t] : a \in OptActions, t \in OptTargets}
OptSkillParams == {None} \cup {Some(p) : p \in SkillParams}
OptBool == {None, Some(TRUE), Some(FALSE)}
NewStatuses == {[is_alive |-> a, skill_used |-> u] : a \in OptBool, u \in OptBool}
ActionTypes == {"speak", "vote", "use_skill", "dance"}
NoKwargs == [speech_type |-> None, target_id |-> None, skill_params |-> None]


(***************************************************************************)
(* State machine: the agent, and the call the driver has just made on it.  *)
(* The driver makes one call at a time: it takes the result of a call      *)
(* (Return) before it makes the next one.                                  *)
(***************************************************************************)
Idle(self) ==
  [op |-> "idle", args |-> <<>>, pre |-> self, env |-> Quiet, ret |-> <<>>,
   raised |-> None, caught |-> None, trace |-> <<>>]

\* tally counts, since the last update_status, the use_skill calls that
\* returned success = true and the skill mutations the backend completed
MaxTally == 2

NoTally == [successes |-> 0, mutations |-> 0]

Min(a, b) == IF a < b THEN a ELSE b

SkillSucceeded(trace) ==
  \E i \in 1..Len(trace) : trace[i].name = "self.skill_used"

Completed(trace) ==
  Cardinality({i \in 1..Len(trace) :
                 trace[i].name \in SkillMutations /\ trace[i].out = "ok"})

Counted(t, trace) ==
  [successes |-> Min(MaxTally, t.successes + IF SkillSucceeded(trace) THEN 1 ELSE 0),
   mutations |-> Min(MaxTally, t.mutations + Completed(trace))]

Call(op, args, pre, env, r, caught) ==
  [op |-> op, args |-> args, pre |-> pre, env |-> env, ret |-> r.ret,
   raised |-> r.raised, caught |-> caught, trace |-> r.trace]

\* the call op(args) under env has produced r
Made(op, args, env, r) ==
  /\ agent' = r.agent
  /\ last' = Call(op, args, agent, env, r, None)
  /\ tally' = Counted(tally, r.trace)

MadeAct(args, env, r) ==
  /\ agent' = r.agent
  /\ last' = Call("act", args, agent, env, r, r.caught)
  /\ tally' = Counted(tally, r.trace)

Init ==
  /\ agent \in {NewAgent(p, r, c) : p \in 1..MaxPlayer, r \in Role, c \in BOOLEAN}
  /\ last = Idle(agent)
  /\ tally = NoTally

Speak ==
  /\ last.op = "idle"
  /\ \E env \in SpeakEnvs(agent) :
       Made("speak", <<"normal">>, env, speak(agent, "normal", env))

Vote ==
  /\ last.op = "idle"
  /\ \E target_id \in OptTargets : \E env \in VoteEnvs(agent, target_id) :
       Made("vote", <<target_id>>, env, vote(agent, target_id, env))

UseSkill ==
  /\ last.op = "idle"
  /\ \E skill_params \in OptSkillParams : \E env \in SkillEnvs(agent, skill_params) :
       Made("use_skill", <<skill_params>>, env, use_skill(agent, skill_params, env))

ActEnvs(self, action_type, kwargs) ==
  WithUpdate(CASE action_type = "speak" -> SpeakEnvs(self)
               [] action_type = "vote" -> VoteEnvs(self, kwargs.target_id)
               [] action_type = "use_skill" -> SkillEnvs(self, kwargs.skill_params)
               [] OTHER -> {Quiet})

ActKwargs(action_type) ==
  CASE action_type = "vote" -> {[NoKwargs EXCEPT !.target_id = t] : t \in OptTargets}
    [] action_type = "use_skill" ->
         {[NoKwargs EXCEPT !.skill_params = p] : p \in OptSkillParams}
    [] OTHER -> {NoKwargs}

Act ==
  /\ last.op = "idle"
  /\ \E action_type \in ActionTypes : \E kwargs \in ActKwargs(action_type) :
       \E env \in ActEnvs(agent, action_type, kwargs) :
         MadeAct(<<action_type, kwargs>>, env, act(agent, action_type, kwargs, env))

UpdateStatus ==
  /\ last.op = "idle"
  /\ \E new_status \in NewStatuses :
       /\ agent' = update_status(agent, new_status)
       /\ last' = [Idle(agent) EXCEPT !.op = "update_status",
                                      !.args = <<new_status>>]
       /\ tally' = NoTally

\* a read produced r: no exception can leave it
Read(op, env, r) ==
  /\ agent' = r.agent
  /\ last' = Call(op, <<>>, agent, env, r, None)
  /\ UNCHANGED tally

GetCurrentState ==
  /\ last.op = "idle"
  /\ \E st \in StateOutcomes :
       Read("get_current_state", [Quiet EXCEPT !.st = st],
            get_current_state(agent, st))

GetHistorySpeeches ==
  /\ last.op = "idle"
  /\ \E h \in HistoryOutcomes :
       Read("get_history_speeches", [Quiet EXCEPT !.h = h],
            get_history_speeches(agent, h))

Return ==
  /\ last.op # "idle"
  /\ last' = Idle(agent)
  /\ UNCHANGED <<agent, tally>>

Next ==
  \/ Speak
  \/ Vote
  \/ UseSkill
  \/ Act
  \/ UpdateStatus
  \/ GetCurrentState
  \/ GetHistorySpeeches
  \/ Return

Spec == Init /\ [][Next]_vars

(***************************************************************************)
(* Reading the record of the last call.                                    *)
(***************************************************************************)
Called(names) == Names(last.trace) \cap names

Index(name) == CHOOSE i \in 1..Len(last.trace) : last.trace[i].name = name

Raised(names) ==
  \E i \in 1..Len(last.trace) :
    last.trace[i].name \in names /\ last.trace[i].out # "ok"

DirectCalls == {"speak", "vote", "use_skill"}

(***************************************************************************)
(* C1: a dead agent's speak returns the empty string, its vote returns -1  *)
(* and its use_skill returns success = false; none of the three makes a    *)
(* backend call (nor any other call) or changes vote_target or skill_used. *)
(***************************************************************************)
C1_DeadAgentIsInert ==
  (last.op \in DirectCalls /\ ~last.pre.is_alive) =>
    /\ last.raised = None
    /\ last.op = "speak" => last.ret = <<>>
    /\ last.op = "vote" => last.ret = -1
    /\ last.op = "use_skill" => last.ret.success = FALSE
    /\ Called(BackendCalls) = {}
    /\ last.trace = <<>>
    /\ agent.vote_target = last.pre.vote_target
    /\ agent.skill_used = last.pre.skill_used

C1_Witness ==
  /\ last.op = "vote"
  /\ ~last.pre.is_alive
  /\ last.args[1] = Some(0)
  /\ last.pre.vote_target = Some(1)
  /\ ~last.pre.skill_used

(***************************************************************************)
(* C2: with skill_used = true, use_skill returns success = false for every *)
(* role and every skill_params, and makes no skill mutation and no         *)
(* Generator call.                                                         *)
(***************************************************************************)
C2_LatchedSkillIsRejected ==
  (last.op = "use_skill" /\ last.pre.skill_used) =>
    /\ last.raised = None
    /\ last.ret.success = FALSE
    /\ Called(SkillMutations \cup {"generate"}) = {}

C2_Witness ==
  /\ last.op = "use_skill"
  /\ last.pre.skill_used
  /\ last.pre.is_alive
  /\ last.pre.role = "witch"
  /\ last.pre.api_client
  /\ last.args[1] = Some([action |-> Some("save"), target_id |-> Some(1)])

(***************************************************************************)
(* C3: once skill_used is true it stays true over speak, vote, use_skill   *)
(* and act; only update_status with an explicit skill_used entry sets it   *)
(* back to false.                                                          *)
(***************************************************************************)
C3_LatchOnlyResetByStatus ==
  [][(agent.skill_used /\ ~agent'.skill_used) =>
       /\ last'.op = "update_status"
       /\ last'.args[1].skill_used = Some(FALSE)]_vars

C3_Witness ==
  /\ last.op = "act"
  /\ last.args[1] = "use_skill"
  /\ last.pre.skill_used
  /\ last.pre.is_alive
  /\ agent.skill_used

(***************************************************************************)
(* C4: after a use_skill call, skill_used is true iff it was true before   *)
(* or the call returned success = true; so between two update_status calls *)
(* at most one use_skill returns success = true and at most one skill      *)
(* mutation completes without raising.                                     *)
(***************************************************************************)
C4_LatchSetExactlyOnSuccess ==
  /\ (last.op = "use_skill" /\ last.raised = None) =>
       (agent.skill_used <=> (last.pre.skill_used \/ last.ret.success))
  /\ (last.op = "use_skill" /\ last.raised # None) =>
       (agent.skill_used <=> last.pre.skill_used)
  /\ tally.successes <= 1
  /\ tally.mutations <= 1

C4_Witness ==
  /\ last.op = "use_skill"
  /\ last.pre.skill_used
  /\ last.pre.is_alive
  /\ tally = [successes |-> 1, mutations |-> 1]

(***************************************************************************)
(* C5: act never raises: for every action_type, agent state and outcome of *)
(* the backend and Generator calls it returns an action-result record.     *)
(***************************************************************************)
C5_ActNeverRaises ==
  last.op = "act" =>
    /\ last.raised = None
    /\ last.ret.action_type = last.args[1]
    /\ last.ret.success \in BOOLEAN

C5_Witness ==
  /\ last.op = "act"
  /\ last.args[1] = "speak"
  /\ last.pre.is_alive
  /\ Raised({"update_agent_action"})

(***************************************************************************)
(* C6: whenever an exception is raised inside act, update_agent_action     *)
(* included, the record act returns has success = false and a message that *)
(* carries the exception's message.                                        *)
(***************************************************************************)
C6_CaughtMeansFailure ==
  (last.op = "act" /\ last.caught # None) =>
    /\ last.ret.success = FALSE
    /\ last.ret.message = Some(<<"Action failed: ", last.caught[1]>>)

(***************************************************************************)
(* C7: for an alive agent a Generator that raises never makes speak, vote  *)
(* or use_skill raise; each returns a well-formed result computed from the *)
(* simulated response.  Without a Generator the simulated response is used *)
(* with no generate call, and a call invokes generate at most once.        *)
(***************************************************************************)
TargetIds == (1..(DefaultRosterEnd - 1)) \cup {NoCandidate}

SimulatedResult ==
  /\ last.op = "speak" => last.ret = SimulatedSpeech(last.pre)
  /\ last.op = "vote" => last.ret \in TargetIds
  /\ last.op = "use_skill" =>
       /\ last.ret.success \in BOOLEAN
       /\ last.ret.message # <<>>
       /\ last.pre.role = "witch" =>
            /\ last.ret.message = <<"Witch chose not to use skill">>
            /\ Called(SkillMutations) = {}
       /\ \A i \in 1..Len(last.trace) :
            last.trace[i].name \in SkillMutations =>
              last.trace[i].arg = <<last.pre.player_id, Some(NoNumber)>>

C7_GeneratorFallback ==
  (last.op \in DirectCalls /\ last.pre.is_alive) =>
    /\ Count(last.trace, {"generate"}) <= 1
    /\ ~last.pre.api_client => "generate" \notin Names(last.trace)
    /\ (~last.pre.api_client /\ last.op = "speak") => "simulate" \in Names(last.trace)
    /\ Raised({"generate"}) =>
         /\ last.raised = None
         /\ last.trace[Index("generate") + 1].name = "simulate"
         /\ SimulatedResult
    /\ (~last.pre.api_client /\ "simulate" \in Names(last.trace)) =>
         /\ last.raised = None
         /\ SimulatedResult

C7_Witness ==
  /\ last.op = "use_skill"
  /\ last.pre.is_alive
  /\ last.pre.role = "werewolf"
  /\ Raised({"generate"})
  /\ Called({"werewolf_kill"}) # {}

(***************************************************************************)
(* C8: when the role's backend mutation raises, use_skill does not raise,  *)
(* returns success = false with a message embedding the failure and leaves *)
(* skill_used false; the same call made again is not rejected by the latch *)
(* and calls the same mutation again.                                      *)
(***************************************************************************)
FailurePrefix ==
  [n \in SkillMutations |->
     CASE n = "werewolf_kill" -> "Werewolf kill failed: "
       [] n = "seer_check" -> "Seer check failed: "
       [] n = "hunter_shoot" -> "Hunter shoot failed: "
       [] OTHER -> "Witch skill failed: "]

FailedCall ==
  last.trace[CHOOSE i \in 1..Len(last.trace) : last.trace[i].name \in SkillMutations]

\* again is the result of the same call made once more
CallsAgain(again, call) ==
  /\ again.ret.message # <<"Cannot use skill">>
  /\ \E i \in 1..Len(again.trace) :
       /\ again.trace[i].name = call.name
       /\ again.trace[i].arg = call.arg

C8_FailedMutationKeepsLatchOpen ==
  (last.op = "use_skill" /\ Raised(SkillMutations)) =>
    /\ last.raised = None
    /\ last.ret.success = FALSE
    /\ last.ret.message = <<FailurePrefix[FailedCall.name], FailedCall.out>>
    /\ ~last.pre.skill_used
    /\ ~agent.skill_used
    /\ \A mut \in MutOutcomes(agent) :
         CallsAgain(use_skill(agent, last.args[1], [last.env EXCEPT !.mut = mut]),
                    FailedCall)

C8_Witness ==
  /\ last.op = "use_skill"
  /\ last.pre.role = "hunter"
  /\ Raised({"hunter_shoot"})
  /\ last.args[1] = Some([action |-> None, target_id |-> Some(1)])

(***************************************************************************)
(* C9: a failed submission does not lose the decision: speak returns the   *)
(* same text and vote the same target whether the submission succeeds or   *)
(* raises, and vote_target equals the returned target and is assigned      *)
(* before submit_vote is called.                                           *)
(***************************************************************************)
OtherSubmit(env) ==
  [env EXCEPT !.submit = IF env.submit.ok THEN Fail("timeout") ELSE Ok(<<>>)]

\* other is the result of the same call with the other submission outcome
SameSpeech(other) ==
  /\ last.raised = None
  /\ other.raised = None
  /\ other.ret = last.ret
  /\ last.trace[Index("submit_speech")].arg = <<last.pre.player_id, last.ret>>

SameVote(other) ==
  /\ last.raised = None
  /\ other.raised = None
  /\ other.ret = last.ret
  /\ agent.vote_target = Some(last.ret)
  /\ other.agent.vote_target = Some(last.ret)
  /\ Index("self.vote_target") < Index("submit_vote")
  /\ last.trace[Index("self.vote_target")].arg = <<last.ret>>
  /\ last.trace[Index("submit_vote")].arg = <<last.pre.player_id, last.ret>>

C9_SubmissionFailureKeepsDecision ==
  /\ (last.op = "speak" /\ last.pre.is_alive) =>
       SameSpeech(speak(last.pre, last.args[1], OtherSubmit(last.env)))
  /\ (last.op = "vote" /\ last.pre.is_alive) =>
       SameVote(vote(last.pre, last.args[1], OtherSubmit(last.env)))

C9_Witness ==
  /\ last.op = "vote"
  /\ last.pre.is_alive
  /\ last.args[1] = None
  /\ Raised({"submit_vote"})
  /\ last.pre.vote_target # Some(last.ret)

(***************************************************************************)
(* C10: for an alive agent an explicit target_id is used verbatim by vote: *)
(* it is returned, stored in vote_target and passed to submit_vote, and    *)
(* neither the Generator, the simulated fallback nor vote parsing is       *)
(* consulted.                                                              *)
(***************************************************************************)
C10_ExplicitTargetVerbatim ==
  (last.op = "vote" /\ last.pre.is_alive /\ last.args[1] # None) =>
    /\ last.raised = None
    /\ last.ret = last.args[1][1]
    /\ agent.vote_target = last.args[1]
    /\ Count(last.trace, {"submit_vote"}) = 1
    /\ last.trace[Index("submit_vote")].arg = <<last.pre.player_id, last.args[1][1]>>
    /\ Called({"generate", "simulate", "_parse_vote_decision"}) = {}

C10_Witness ==
  /\ last.op = "vote"
  /\ last.pre.is_alive
  /\ last.args[1] = Some(0)
  /\ last.pre.knowledge_base.alive_players = Some(<<1>>)
  /\ last.pre.player_id = 1
  /\ last.pre.api_client

(***************************************************************************)
(* C11: every alive, AI-decided decision refreshes the knowledge base      *)
(* first: in speak, in vote without an explicit target and in use_skill    *)
(* without an explicit target/action, get_game_state is called before the  *)
(* Generator or the simulated fallback is consulted.                       *)
(***************************************************************************)
Consulted == {"generate", "simulate"}

FetchedBeforeConsulting ==
  \E i \in 1..Len(last.trace) :
    /\ last.trace[i].name = "get_game_state"
    /\ \A j \in 1..Len(last.trace) : last.trace[j].name \in Consulted => i < j

C11_RefreshBeforeDecision ==
  (last.op \in DirectCalls /\ last.pre.is_alive /\ Called(Consulted) # {}) =>
    FetchedBeforeConsulting

(***************************************************************************)
(* C12: in every skill handler a target_id supplied in skill_params is the *)
(* one every backend mutation of the call receives, and the Generator or   *)
(* its fallback is consulted only for the part (target, or the witch's     *)
(* action) that skill_params does not supply.                              *)
(***************************************************************************)
Supplied == Get(last.args[1], EmptyParams)

C12_ExplicitParamsAreUsed ==
  (last.op = "use_skill" /\ last.pre.is_alive /\ ~last.pre.skill_used) =>
    /\ Supplied.target_id # None =>
         \A i \in 1..Len(last.trace) :
           last.trace[i].name \in SkillMutations =>
             last.trace[i].arg = <<last.pre.player_id, Supplied.target_id>>
    /\ Called(Consulted) # {} =>
         \/ Supplied.target_id = None
         \/ last.pre.role = "witch" /\ Supplied.action = None

(***************************************************************************)
(* C13: an alive seer with skill_used = false and no Generator that calls  *)
(* use_skill with empty params makes exactly one seer_check call and no    *)
(* other backend call; when seer_check returns a label the result has      *)
(* success = true and that label as check_result and skill_used becomes    *)
(* true, and a use_skill call made next returns success = false, makes no  *)
(* backend call and changes nothing.                                       *)
(***************************************************************************)
\* again is the result of the use_skill call that follows
RejectedWithoutCall(again) ==
  /\ again.raised = None
  /\ again.ret.success = FALSE
  /\ Names(again.trace) \cap BackendCalls = {}
  /\ again.agent = agent

C13_SeerEndToEnd ==
  (/\ last.op = "use_skill"
   /\ last.pre.role = "seer"
   /\ last.pre.is_alive /\ ~last.pre.skill_used /\ ~last.pre.api_client
   /\ Supplied = EmptyParams) =>
    /\ last.raised = None
    /\ Count(last.trace, {"seer_check"}) = 1
    /\ Count(last.trace, BackendCalls) = 1
    /\ last.env.mut.ok =>
         /\ last.ret.success = TRUE
         /\ last.ret.check_result = Some(last.env.mut.value)
         /\ agent.skill_used
         /\ \A mut \in MutOutcomes(agent) :
              RejectedWithoutCall(use_skill(agent, last.args[1],
                                            [last.env EXCEPT !.mut = mut]))

C13_Witness ==
  /\ last.op = "use_skill"
  /\ last.pre.role = "seer"
  /\ last.pre.is_alive /\ ~last.pre.skill_used /\ ~last.pre.api_client
  /\ last.args[1] = Some(EmptyParams)
  /\ last.env.mut = Ok("werewolf")
  /\ last.ret.check_result = Some("werewolf")
  /\ agent.skill_used

(***************************************************************************)
(* C14: for an alive hunter with skill_used = false a resolved target of 0 *)
(* (explicit, or derived from the reply) never calls hunter_shoot, returns *)
(* success = true and sets skill_used; a nonzero resolved target calls     *)
(* hunter_shoot exactly once with that target.                             *)
(***************************************************************************)
\* the target the handler resolved: the explicit one, else the one parsed
\* from the reply that was handed to _parse_number_from_response
ResolvedTarget ==
  IF Supplied.target_id # None THEN Supplied.target_id[1]
  ELSE _parse_number_from_response(
         last.trace[Index("_parse_number_from_response")].arg)

C14_HunterZeroShortCircuits ==
  (/\ last.op = "use_skill"
   /\ last.pre.role = "hunter"
   /\ last.pre.is_alive /\ ~last.pre.skill_used) =>
    /\ last.raised = None
    /\ ResolvedTarget = 0 =>
         /\ Called({"hunter_shoot"}) = {}
         /\ last.ret.success = TRUE
         /\ agent.skill_used
    /\ ResolvedTarget # 0 =>
         /\ Count(last.trace, {"hunter_shoot"}) = 1
         /\ last.trace[Index("hunter_shoot")].arg =
              <<last.pre.player_id, Some(ResolvedTarget)>>

C14_Witness ==
  /\ last.op = "use_skill"
  /\ last.pre.role = "hunter"
  /\ last.pre.is_alive /\ ~last.pre.skill_used
  /\ Supplied.target_id = None
  /\ last.env.gen = Ok(<<"0">>)
  /\ Called({"hunter_shoot"}) = {}
  /\ agent.skill_used

(***************************************************************************)
(* C15: for an alive witch with skill_used = false a resolved action that  *)
(* is neither save nor poison (abstain, an unrecognised explicit action, a *)
(* reply with neither keyword) gives success = true whatever the backend   *)
(* would answer, calls neither witch_save nor witch_poison and sets        *)
(* skill_used.                                                             *)
(***************************************************************************)
WitchReply == last.trace[Index("_parse_witch_decision")].arg

WitchAbstains ==
  IF Supplied.action # None THEN Supplied.action[1] \notin {"save", "poison"}
  ELSE ~ContainsSave(WitchReply) /\ ~ContainsPoison(WitchReply)

C15_WitchAbstainAlwaysSucceeds ==
  (/\ last.op = "use_skill"
   /\ last.pre.role = "witch"
   /\ last.pre.is_alive /\ ~last.pre.skill_used
   /\ WitchAbstains) =>
    /\ last.raised = None
    /\ last.ret.success = TRUE
    /\ last.ret.message = <<"Witch chose not to use skill">>
    /\ Called({"witch_save", "witch_poison"}) = {}
    /\ agent.skill_used

C15_Witness ==
  /\ last.op = "use_skill"
  /\ last.pre.role = "witch"
  /\ last.pre.is_alive /\ ~last.pre.skill_used
  /\ Supplied.action = Some("dance")
  /\ ~last.env.mut.ok
  /\ agent.skill_used

(***************************************************************************)
(* C16: an act call in which no exception is raised calls                  *)
(* update_agent_action exactly once, after everything the dispatched       *)
(* speak/vote/use_skill did, with the record act returns; for use_skill    *)
(* the record's success (and message) is the skill result's; for an        *)
(* unrecognised action_type nothing is performed and the reported record   *)
(* has success = false.                                                    *)
(***************************************************************************)
\* skilled is the result of the use_skill call act dispatched
ReportsSkill(skilled) ==
  /\ last.ret.success = skilled.ret.success
  /\ last.ret.message = Some(skilled.ret.message)
  /\ agent = skilled.agent

C16_ActReportsOnce ==
  (last.op = "act" /\ last.caught = None) =>
    /\ last.raised = None
    /\ Count(last.trace, {"update_agent_action"}) = 1
    /\ last.trace[Len(last.trace)] =
         Ev("update_agent_action", <<last.pre.player_id, last.ret>>, "ok")
    /\ last.args[1] = "use_skill" =>
         ReportsSkill(use_skill(last.pre,
                                Some(Get(last.args[2].skill_params, EmptyParams)),
                                last.env))
    /\ last.args[1] \notin DirectCalls =>
         /\ Len(last.trace) = 1
         /\ last.ret = ActionResult(last.args[1], FALSE, None, None, None)
         /\ agent = last.pre

C16_Witness ==
  /\ last.op = "act"
  /\ last.caught = None
  /\ last.args[1] = "use_skill"
  /\ last.pre.role = "hunter"
  /\ last.pre.is_alive /\ ~last.pre.skill_used
  /\ Raised({"hunter_shoot"})
  /\ last.ret.success = FALSE

(***************************************************************************)
(* The candidates of the vote fallback rule, read from the agent as it was *)
(* when the call was made.                                                 *)
(***************************************************************************)
Elems(seq) == {seq[i] : i \in 1..Len(seq)}

Cached == Get(last.pre.knowledge_base.alive_players, <<>>)

CachedOthers == Elems(OtherPlayers(Cached, last.pre.player_id))

DefaultOthers == Elems(OtherPlayers(DefaultRoster, last.pre.player_id))

(***************************************************************************)
(* C17: with no Generator, or one that raises, an alive agent's vote       *)
(* without an explicit target returns an opponent: never the agent's own   *)
(* id; a member of the cached alive roster minus self when that is not     *)
(* empty, and otherwise a member of 1..9 minus self.                       *)
(***************************************************************************)
C17_FallbackVoteIsOpponent ==
  (/\ last.op = "vote"
   /\ last.pre.is_alive
   /\ last.args[1] = None
   /\ ~last.pre.api_client \/ Raised({"generate"})) =>
    /\ last.ret # last.pre.player_id
    /\ CachedOthers # {} => last.ret \in CachedOthers
    /\ CachedOthers = {} => last.ret \in DefaultOthers

(***************************************************************************)
(* C18: vote parsing: the first all-digit token of the reply is the        *)
(* target; with no such token the target is a member of the cached alive   *)
(* roster minus self; when the cached roster is empty (never fetched, or   *)
(* fetched as empty) it is a member of 1..9 minus self; -1 is returned     *)
(* only when no candidate remains.                                         *)
(***************************************************************************)
VoteReply == last.trace[Index("_parse_vote_decision")].arg

HasDigitToken(response) == \E i \in 1..Len(response) : isdigit(response[i])

C18_VoteParseFallback ==
  (last.op = "vote" /\ last.pre.is_alive /\ last.args[1] = None) =>
    /\ (HasDigitToken(VoteReply) /\ ~NumbersRaises(VoteReply)) =>
         last.ret = Numbers(VoteReply)[1]
    /\ ~HasDigitToken(VoteReply) =>
         /\ CachedOthers # {} => last.ret \in CachedOthers
         /\ Cached = <<>> => last.ret \in DefaultOthers
         /\ last.ret = NoCandidate => (Cached # <<>> /\ CachedOthers = {})

(***************************************************************************)
(* C19: a failed state fetch returns the empty state, does not raise and   *)
(* leaves the whole knowledge base as it was; a failed history fetch       *)
(* returns the empty sequence and leaves the whole knowledge base as it    *)
(* was; a successful state fetch leaves history_speeches alone and a       *)
(* successful history fetch leaves the four state fields alone.            *)
(***************************************************************************)
StateFields(kb) ==
  <<kb.game_phase, kb.current_round, kb.alive_players, kb.death_info>>

C19_FailedRefreshKeepsCache ==
  /\ last.op = "get_current_state" =>
       /\ last.raised = None
       /\ ~last.env.st.ok => (last.ret = EmptyState /\ agent = last.pre)
       /\ agent.knowledge_base.history_speeches =
            last.pre.knowledge_base.history_speeches
  /\ last.op = "get_history_speeches" =>
       /\ last.raised = None
       /\ ~last.env.h.ok => (last.ret = <<>> /\ agent = last.pre)
       /\ StateFields(agent.knowledge_base) = StateFields(last.pre.knowledge_base)

C19_Witness ==
  /\ last.op = "get_current_state"
  /\ ~last.env.st.ok
  /\ last.pre.knowledge_base.alive_players = Some(Roster(MaxPlayer + 1))
  /\ last.pre.knowledge_base.history_speeches # <<>>
  /\ agent = last.pre

(***************************************************************************)
(* C20: after a successful state fetch, a field the response omits keeps   *)
(* its cached value and a field it has takes the fetched value.  (An       *)
(* entry never written and its default are taken to be the same value.)    *)
(***************************************************************************)
\* cached is the value before, now the value after, fetched the response's
KeptOrFetched(cached, now, fetched) ==
  IF fetched = None THEN now = cached ELSE now = fetched[1]

C20_OmittedFieldsAreKept ==
  (last.op = "get_current_state" /\ last.env.st.ok) =>
    /\ IF last.ret.phase = None
       THEN agent.knowledge_base.game_phase = last.pre.knowledge_base.game_phase
       ELSE agent.knowledge_base.game_phase = last.ret.phase
    /\ KeptOrFetched(last.pre.knowledge_base.current_round,
                     agent.knowledge_base.current_round, last.ret.round)
    /\ KeptOrFetched(Get(last.pre.knowledge_base.alive_players, <<>>),
                     Get(agent.knowledge_base.alive_players, <<>>),
                     last.ret.alive_players)
    /\ KeptOrFetched(last.pre.knowledge_base.death_info,
                     agent.knowledge_base.death_info, last.ret.death_info)

(***************************************************************************)
(* C21: witch decision parsing, for every reply: (save, n) if the          *)
(* lower-cased reply contains save, otherwise (poison, n) if it contains   *)
(* poison, otherwise (abstain, 0), where n is the first token made only of *)
(* decimal digits, as an integer, or 0 without one.  Read on the witch's   *)
(* use_skill calls that derive the action: the parse returns, and the      *)
(* decision acted upon is the one the rule gives.                          *)
(***************************************************************************)
IsDecimal(t) == t \in DOMAIN DecimalValue

FirstDecimal(response) ==
  IF SelectSeq(response, IsDecimal) = <<>> THEN 0
  ELSE DecimalValue[SelectSeq(response, IsDecimal)[1]]

ExpectedDecision(response) ==
  IF ContainsSave(response) THEN <<"save", FirstDecimal(response)>>
  ELSE IF ContainsPoison(response) THEN <<"poison", FirstDecimal(response)>>
  ELSE <<"abstain", 0>>

\* what the handler did with the decision d
ActedOn(d) ==
  /\ d[1] = "save" =>
       /\ Called(SkillMutations) = {"witch_save"}
       /\ last.trace[Index("witch_save")].arg = <<last.pre.player_id, Some(d[2])>>
  /\ d[1] = "poison" =>
       /\ Called(SkillMutations) = {"witch_poison"}
       /\ last.trace[Index("witch_poison")].arg = <<last.pre.player_id, Some(d[2])>>
  /\ d[1] = "abstain" => Called(SkillMutations) = {}

C21_WitchDecisionParsing ==
  (/\ last.op = "use_skill"
   /\ last.pre.role = "witch"
   /\ last.pre.is_alive /\ ~last.pre.skill_used
   /\ Supplied.action = None) =>
    /\ last.trace[Index("_parse_witch_decision")].out = "ok"
    /\ last.raised = None
    /\ _parse_witch_decision(WitchReply) = ExpectedDecision(WitchReply)
    /\ ActedOn(ExpectedDecision(WitchReply))

(***************************************************************************)
(* C22: a villager's use_skill returns success = false for every           *)
(* skill_params and every agent state, calls no skill mutation and no      *)
(* Generator (nor its fallback) and leaves skill_used as it was; speak,    *)
(* vote, use_skill and act never change player_id, role or is_alive.       *)
(***************************************************************************)
C22_VillagerHasNoSkill ==
  /\ (last.op = "use_skill" /\ last.pre.role = "villager") =>
       /\ last.raised = None
       /\ last.ret.success = FALSE
       /\ Called(SkillMutations \cup Consulted) = {}
       /\ agent.skill_used = last.pre.skill_used
  /\ last.op \in DirectCalls \cup {"act"} =>
       /\ agent.player_id = last.pre.player_id
       /\ agent.role = last.pre.role
       /\ agent.is_alive = last.pre.is_alive

C22_Witness ==
  /\ last.op = "use_skill"
  /\ last.pre.role = "villager"
  /\ last.pre.is_alive /\ ~last.pre.skill_used
  /\ last.args[1] = Some([action |-> Some("save"), target_id |-> Some(1)])
  /\ last.ret.message = <<>>
  /\ ~agent.skill_used

====
